---- MODULE Spec2Model ----
(***************************************************************************)
(* The conduit lifecycle of platform-tools: start_conduit and the helpers  *)
(* it composes (cluster lookup, task naming, existing-task check, task     *)
(* launch with secret resolution, stack patches, readiness polling and     *)
(* attach), run against a remote world of ECS tasks, CloudFormation        *)
(* stacks, SSM parameters and secrets.  The conduit module itself is       *)
(* exercised by src/tests/copilot_helper/test_command_conduit.py; what the *)
(* tests pin down is taken from them, the remainder from spec.md.          *)
(***************************************************************************)
EXTENDS Integers, Sequences, FiniteSets, TLC

\* ---------------------------------------------------------------- bounds
MaxInvocations == 2      \* start_conduit invocations in one behaviour
MaxRandomIds == 2        \* distinct outcomes of the random 12-character id

\* ------------------------------------------------------ program constants
MaxTries_one_short == 15 - 1
MaxTries == 15           \* polling attempts of connect_to_addon_client_task

\* ------------------------------------------------------------------ names
\* Strings that are normalised are kept as sequences of characters.
postgres == <<"p","o","s","t","g","r","e","s">>
redis == <<"r","e","d","i","s">>
opensearch == <<"o","p","e","n","s","e","a","r","c","h">>
nope == <<"n","o","p","e">>
named_postgres == <<"n","a","m","e","d","-","p","o","s","t","g","r","e","s">>
None == <<>>

CONDUIT_ADDON_TYPES == {opensearch, postgres, redis}

App == "test-application"

\* the (env, addon_type, addon_name) arguments start_conduit is invoked with
StartInputs == {<<"development", postgres, None>>,
                <<"development", redis, None>>,
                <<"development", opensearch, named_postgres>>,
                <<"staging", postgres, None>>,
                <<"development", nope, None>>}

\* outcomes of the random id that ends a generated task name
RandomIds == 1..MaxRandomIds

LowerCase == <<"a","b","c","d","e","f","g","h","i","j","k","l","m",
               "n","o","p","q","r","s","t","u","v","w","x","y","z">>
UpperCase == <<"A","B","C","D","E","F","G","H","I","J","K","L","M",
               "N","O","P","Q","R","S","T","U","V","W","X","Y","Z">>

\* str.upper() on one character
upper(c) ==
  IF \E i \in 1..26 : LowerCase[i] = c
    THEN UpperCase[CHOOSE i \in 1..26 : LowerCase[i] = c]
    ELSE c

\* ext_name.upper().replace("-", "_")
secret_name(name) ==
  [i \in 1..Len(name) |-> IF upper(name[i]) = "-" THEN "_" ELSE upper(name[i])]

\* /copilot/<app>/<env>/secrets/<secret_name>
secret_path(e, key) == <<"copilot", App, e, "secrets", key>>

\* /copilot/<app>/<env>/conduits/<addon_name>_CONDUIT_TASK_NAME
task_name_parameter(e, name) == <<"copilot", App, e, "conduits", name>>

NoName == [addon |-> None, env |-> "", id |-> 0]
NoArn == <<>>

\* task-<app>-<env>-conduit-<addon_name>-<random id>
mock_task_name(e, name, id) == [addon |-> name, env |-> e, id |-> id]

RandomIdLength_short == 12 - 1
RandomIdLength == 12     \* len(random_id) == 12

\* the characters random ids are drawn from: lowercase letters and digits
RandomIdChars == LowerCase \o <<"0","1","2","3","4","5","6","7","8","9">>

\* the k-th outcome of the random id: RandomIdLength characters of RandomIdChars
random_id(k) ==
  [i \in 1..RandomIdLength |-> RandomIdChars[((k * 7 + i * 5) % Len(RandomIdChars)) + 1]]

\* a task name written out, as its hyphen-separated parts
task_name_string(name) ==
  <<"task", App, name.env, "conduit", name.addon, random_id(name.id)>>

VARIABLES
  inv,                 \* number of start_conduit invocations begun
  pc,                  \* position of the current invocation
  env, addon_type, addon_name,   \* arguments of the current invocation
  cluster_arn, task_name, secret_arn,   \* its locals
  secret_key,          \* the secret name create_addon_client_task derives from addon_name
  access,              \* access mode start was called with
  tries,               \* loop counter of connect_to_addon_client_task
  calls,               \* per-invocation call counts of each collaborator
  trace,               \* per-invocation order of collaborator calls
  reuse,               \* the existing-task check of this invocation said running
  rc,                  \* result of this invocation's run-task call (-1: none)
  attached,            \* task name the exec session was opened on
  clusters,            \* environments that have a tagged cluster
  secrets_manager, parameter_store,     \* secret paths present in each store
  conduit_task_names,  \* SSM parameters holding task names
  tasks,               \* remote tasks, in launch order
  stacks,              \* CloudFormation stacks of launched tasks
  name_log,            \* every get_or_create_task_name call: parameter, result, wrote
  exit_code,           \* exit code of the conduit command (-1: has not exited)
  output,              \* what the conduit command printed on exit
  access_flag,         \* the access flag on the command line (NoAccess: not given)
  stopped,             \* invocations (by number) whose process was stopped part-way
  racers,              \* invocations running side by side inside get_or_create_task_name
  cache_exists,        \* .platform-helper-config.yml exists
  cache_file,          \* its content: resource name -> versions and date-retrieved
  clock,               \* datetime.now(), in seconds
  ticks,               \* number of times the clock has moved
  resource_name,       \* argument of the latest cache_refresh_required call
  refresh_required,    \* what that call returned ("unset": nothing returned since a change)
  wait_pc,             \* position of wait_for_certificate_validation
  sleep_time, timeout, \* its arguments
  elapsed_time,        \* its local
  status,              \* the certificate status it read last
  reads,               \* number of describe_certificate calls it has made
  certificates,        \* the ACM certificates, in listing order
  dns_records,         \* domains whose validation record exists in Route 53
  cert_calls,          \* number of create_cert calls made
  cert_domain,         \* argument of the latest create_cert call
  cert_arn,            \* what it returned (NoCertArn: nothing)
  cert_outcome,        \* how it ended
  cert_ops,            \* requests, record changes and prompts it made
  files,               \* the files of the file system: path -> contents
  dirs,                \* its directories
  mk_calls,            \* number of mkfile calls made
  mk_file,             \* base_path joined with file_path, of the latest call
  mk_contents, mk_overwrite,     \* its other arguments
  mk_message,          \* what it returned, or the exception it raised
  defaults_pc,         \* "idle", or "returned" once apply_environment_defaults has run
  config_arg,          \* the config as it was passed
  config,              \* the same object after the call
  enriched_config,     \* what the call returned
  ext_pc,              \* "idle", "returned" or "exit" for _validate_and_normalise_extensions_config
  extensions,          \* the addons of the config file, in file order
  env_names,           \* the local environments of the call
  normalised_config,   \* what the call returned
  ext_status,          \* the status it exited with (-1: it did not exit)
  ext_messages,        \* the addons it reported, in order, with what was wrong
  addon_plans          \* the loaded addon plans

locals == <<env, addon_type, addon_name, access, cluster_arn, task_name, secret_arn,
            secret_key, tries,
            reuse, rc, attached>>
world == <<clusters, secrets_manager, parameter_store, conduit_task_names, tasks, stacks>>
cache_vars == <<cache_exists, cache_file, clock, ticks, resource_name, refresh_required>>
wait_vars == <<wait_pc, sleep_time, timeout, elapsed_time, status, reads>>
cert_vars == <<certificates, dns_records, cert_calls, cert_domain, cert_arn, cert_outcome,
               cert_ops>>
mkfile_vars == <<files, dirs, mk_calls, mk_file, mk_contents, mk_overwrite, mk_message>>
defaults_vars == <<defaults_pc, config_arg, config, enriched_config>>
ext_vars == <<ext_pc, extensions, env_names, normalised_config, ext_status, ext_messages,
              addon_plans>>
helpers == <<cache_vars, wait_vars, cert_vars, mkfile_vars, defaults_vars, ext_vars>>
command == <<exit_code, output, access_flag, stopped, helpers>>
conduit_vars == <<inv, pc, calls, trace, locals, world, name_log, racers, exit_code, output,
                  access_flag, stopped>>
vars == <<inv, pc, calls, trace, locals, world, name_log, command, racers>>

Collaborators == {"get_cluster_arn", "get_or_create_task_name", "put_parameter",
                  "addon_client_is_running", "get_connection_secret_arn", "run_task",
                  "add_stack_delete_policy_to_task_role",
                  "update_conduit_stack_resources", "exec"}

NoCalls == [c \in Collaborators |-> 0]

\* nothing printed
NoOutput == <<>>

\* no invocation is inside get_or_create_task_name beside the current one
NoRacers == <<>>

\* no access mode: no flag on the command line, or no start call yet
NoAccess == ""

Terminal == {"Connected", "InvalidAddonType", "NoCluster", "NoSecret", "Timeout",
             "StackError", "Stopped"}

\* one collaborator call is recorded
called(c) == calls' = [calls EXCEPT ![c] = @ + 1] /\ trace' = Append(trace, c)

\* two collaborator calls, c then d, are recorded
called2(c, d) ==
  /\ calls' = [calls EXCEPT ![c] = @ + 1, ![d] = @ + 1]
  /\ trace' = Append(Append(trace, c), d)

\* ------------------------------------------------- utils/files.py: the cache
\* seconds in a day: timedelta.days counts whole days
Day == 86400

\* the interval cache_refresh_required passes, in days
RefreshIntervalDays == 1

SupportedVersions == <<"7.1">>

\* strftime("%d-%m-%y %H:%M:%S"): the date and the time of day, to the second
strftime(c) == <<c \div Day, c % Day>>

\* strptime(date_retrieved, "%d-%m-%y %H:%M:%S")
strptime(d) == d[1] * Day + d[2]

InitCache ==
  /\ cache_exists = FALSE
  /\ cache_file = <<>>
  /\ clock = 0
  /\ ticks = 0
  /\ resource_name = None
  /\ refresh_required = "unset"

\* ------------------------------------------------------------- dns_cli.py
InitWait ==
  /\ wait_pc = "idle"
  /\ sleep_time = 0 /\ timeout = 0 /\ elapsed_time = 0
  /\ status = ""
  /\ reads = 0

NoCertArn == 0
NoOps == [request_certificate |-> 0, change_resource_record_sets |-> 0, confirm |-> 0]

InitCert ==
  /\ certificates = <<>>
  /\ dns_records = {}
  /\ cert_calls = 0
  /\ cert_domain = None
  /\ cert_arn = NoCertArn
  /\ cert_outcome = "idle"
  /\ cert_ops = NoOps

\* ------------------------------------------------ utils/files.py: mkfile
\* paths are sequences of names, relative to the working directory; the
\* working directory <<>> and the directory out exist, and nothing else
InitMkfile ==
  /\ files = <<>>
  /\ dirs = {<<>>, <<"out">>}
  /\ mk_calls = 0
  /\ mk_file = <<>>
  /\ mk_contents = "" /\ mk_overwrite = FALSE
  /\ mk_message = <<>>

InitDefaults ==
  /\ defaults_pc = "idle"
  /\ config_arg = <<>>
  /\ config = <<>>
  /\ enriched_config = <<>>

\* --------------------------------------------------- domain/copilot.py
\* addon-plans.yml as loaded: per addon type, per plan, the settings of the plan
AddonPlans ==
  [redis |-> [small |-> [volume_size |-> 10, instances |-> 1],
              large |-> [volume_size |-> 500, replicas |-> 2]]]

InitExtensions ==
  /\ ext_pc = "idle"
  /\ extensions = <<>>
  /\ env_names = {}
  /\ normalised_config = <<>>
  /\ ext_status = -1
  /\ ext_messages = <<>>
  /\ addon_plans = AddonPlans

InitHelpers ==
  /\ InitCache
  /\ InitWait
  /\ InitCert
  /\ InitMkfile
  /\ InitDefaults
  /\ InitExtensions

Init ==
  /\ inv = 0
  /\ pc = "idle"
  /\ env = "" /\ addon_type = None /\ addon_name = None
  /\ cluster_arn = NoArn /\ task_name = NoName /\ secret_arn = NoArn
  /\ secret_key = None
  /\ tries = 0
  /\ calls = NoCalls
  /\ trace = <<>>
  /\ reuse = FALSE
  /\ rc = -1
  /\ attached = NoName
  /\ clusters = {"development"}
  /\ secrets_manager = {secret_path("development", secret_name(postgres))}
  /\ parameter_store = {secret_path("development", secret_name(postgres)),
                        secret_path("development", secret_name(named_postgres))}
  /\ conduit_task_names = <<>>
  /\ tasks = <<>>
  /\ stacks = <<>>
  /\ name_log = <<>>
  /\ exit_code = -1 /\ output = NoOutput
  /\ access = NoAccess /\ access_flag = NoAccess
  /\ racers = NoRacers
  /\ stopped = {}
  /\ InitHelpers

\* ------------------------------------------------------------ start_conduit
\* The command boundary invokes start_conduit(application, env, addon_type, addon_name).
start(e, t, n, a) ==
  /\ pc \in Terminal \cup {"idle"}
  /\ inv < MaxInvocations
  /\ inv' = inv + 1
  /\ env' = e /\ addon_type' = t /\ addon_name' = n /\ access' = a
  /\ cluster_arn' = NoArn /\ task_name' = NoName /\ secret_arn' = NoArn
  /\ secret_key' = None
  /\ tries' = 0 /\ calls' = NoCalls /\ trace' = <<>>
  /\ reuse' = FALSE /\ rc' = -1 /\ attached' = NoName
  /\ pc' = "validate"
  /\ exit_code' = -1 /\ output' = NoOutput
  /\ UNCHANGED <<world, name_log, racers, stopped, helpers>>

default_access_write == "write"
\* the access mode when none is asked for
default_access == "read"

\* start_conduit called directly, without an access mode
start_conduit(e, t, n) == start(e, t, n, default_access) /\ UNCHANGED access_flag

is_conduit_addon_type_unchecked(t) == TRUE
\* addon_type must be one of CONDUIT_ADDON_TYPES, else InvalidAddonTypeConduitError
is_conduit_addon_type(t) == t \in CONDUIT_ADDON_TYPES

\* the type check that opens start_conduit; addon_name defaults to addon_type
validate_addon_type ==
  /\ pc = "validate"
  /\ IF is_conduit_addon_type(addon_type)
       THEN /\ pc' = "get_cluster_arn"
            /\ addon_name' = IF addon_name = None THEN addon_type ELSE addon_name
       ELSE /\ pc' = "InvalidAddonType"
            /\ addon_name' = addon_name
  /\ UNCHANGED <<command, inv, access, calls, trace, env, addon_type, cluster_arn, task_name,
                 secret_arn, secret_key,
                 tries, reuse, rc, attached, world, name_log, racers>>

after_get_cluster_arn_swallowed(found) == "get_or_create_task_name"
\* NoClusterConduitError raised by get_cluster_arn ends start_conduit
after_get_cluster_arn(found) == IF found THEN "get_or_create_task_name" ELSE "NoCluster"

\* tag search for the cluster of (application, env); NoClusterConduitError if none
get_cluster_arn ==
  /\ pc = "get_cluster_arn"
  /\ called("get_cluster_arn")
  /\ cluster_arn' = IF env \in clusters THEN <<"cluster", App, env>> ELSE cluster_arn
  /\ pc' = after_get_cluster_arn(env \in clusters)
  /\ UNCHANGED <<command, inv, access, env, addon_type, addon_name, task_name, secret_arn,
                 secret_key, tries, reuse,
                 rc, attached, world, name_log, racers>>

task_name_is_stored_never(p) == FALSE
\* ssm.get_parameter finds the task name parameter
task_name_is_stored(p) == p \in DOMAIN conduit_task_names

put_parameter_keeping_first(names, p, n) == IF p \in DOMAIN names THEN names ELSE (p :> n) @@ names
put_parameter_dropped(names, p, n) == names
\* the freshly generated task name is stored under its parameter (spec.md 4.3)
put_parameter(names, p, n) == (p :> n) @@ names

\* read the persisted task name; if absent generate one with a random id and store it
get_or_create_task_name ==
  /\ pc = "get_or_create_task_name"
  /\ LET p == task_name_parameter(env, addon_name) IN
       IF task_name_is_stored(p)
         THEN /\ task_name' = conduit_task_names[p]
              /\ conduit_task_names' = conduit_task_names
              /\ called("get_or_create_task_name")
              /\ name_log' = Append(name_log, [param |-> p, name |-> task_name',
                                               wrote |-> FALSE])
         ELSE \E id \in RandomIds :
              /\ task_name' = mock_task_name(env, addon_name, id)
              /\ conduit_task_names' = put_parameter(conduit_task_names, p, task_name')
              /\ called2("get_or_create_task_name", "put_parameter")
              /\ name_log' = Append(name_log, [param |-> p, name |-> task_name',
                                               wrote |-> TRUE])
  /\ pc' = "addon_client_is_running"
  /\ UNCHANGED <<command, racers, inv, access, env, addon_type, addon_name, cluster_arn,
                 secret_arn, secret_key, tries, reuse,
                 rc, attached, clusters, secrets_manager, parameter_store, tasks, stacks>>

addon_client_is_running_ignoring_agent(name) ==
  \E i \in DOMAIN tasks : tasks[i].name = name /\ tasks[i].lastStatus = "RUNNING"
\* a task of that name has lastStatus RUNNING and its exec agent RUNNING
addon_client_is_running(name) ==
  \E i \in DOMAIN tasks :
    /\ tasks[i].name = name
    /\ tasks[i].lastStatus = "RUNNING"
    /\ tasks[i].agent = "RUNNING"

after_existing_task_check_always_create(running) == "get_connection_secret_arn"
after_existing_task_check_direct_attach(running) ==
  IF running THEN "Connected" ELSE "get_connection_secret_arn"
\* "if not addon_client_is_running(...)": create the task and patch its stack;
\* connect_to_addon_client_task follows on either branch
after_existing_task_check(running) ==
  IF running THEN "connect_to_addon_client_task" ELSE "get_connection_secret_arn"

\* the single existing-task check of start_conduit
check_existing_task ==
  /\ pc = "addon_client_is_running"
  /\ called("addon_client_is_running")
  /\ reuse' = addon_client_is_running(task_name)
  /\ pc' = after_existing_task_check(reuse')
  /\ UNCHANGED <<command, inv, access, env, addon_type, addon_name, cluster_arn, task_name,
                 secret_arn, secret_key,
                 tries, rc, attached, world, name_log, racers>>

\* ----------------------------------------------- create_addon_client_task
get_connection_secret_arn_fallback_first(e, key) ==
  LET p == secret_path(e, key) IN
    IF p \in secrets_manager THEN <<"arn:aws:secretsmanager", p>>
    ELSE IF p \in parameter_store THEN <<"arn:aws:ssm", p>>
    ELSE NoArn
get_connection_secret_arn_defaulting(e, key) ==
  LET p == secret_path(e, key) IN
    IF p \in parameter_store THEN <<"arn:aws:ssm", p>>
    ELSE <<"arn:aws:secretsmanager", p>>
\* The parameter store is asked first and secrets manager second, by the same
\* path: the parameter store test runs under @mock_ssm alone, so the reference
\* is returned there without secrets manager being reachable, while the secrets
\* manager test needs both mocks. SecretNotFoundConduitError (NoArn) if neither.
get_connection_secret_arn(e, key) ==
  LET p == secret_path(e, key) IN
    IF p \in parameter_store THEN <<"arn:aws:ssm", p>>
    ELSE IF p \in secrets_manager THEN <<"arn:aws:secretsmanager", p>>
    ELSE NoArn

\* first half of create_addon_client_task: resolve the connection secret
resolve_secret ==
  /\ pc = "get_connection_secret_arn"
  /\ called("get_connection_secret_arn")
  /\ secret_key' = secret_name(addon_name)
  /\ secret_arn' = get_connection_secret_arn(env, secret_key')
  /\ pc' = IF secret_arn' = NoArn THEN "NoSecret" ELSE "run_task"
  /\ UNCHANGED <<command, inv, access, env, addon_type, addon_name, cluster_arn, task_name,
                 tries, reuse,
                 rc, attached, world, name_log, racers>>

after_run_task_unpatched(r) == "connect_to_addon_client_task"
\* the result r of subprocess.call is not inspected: create_addon_client_task
\* returns normally and start_conduit goes on to the stack patches
after_run_task(r) == "add_stack_delete_policy_to_task_role"

\* a stack as "copilot task run" creates it: no DeleteCloudFormationStack policy
\* on the task role, LogGroup without DeletionPolicy: Retain, no TaskNameParameter
\* resource, and no update made to it yet
NoStack == [DeleteCloudFormationStack |-> NoArn, LogGroupDeletionPolicy |-> "Delete",
            TaskNameParameter |-> NoArn, updates |-> 0]

\* Resource of the policy: arn:aws:cloudformation:*:*:stack/task-<task_name>/*
stack_resource(name) == <<"arn:aws:cloudformation:*:*:stack", "task", name>>

\* --image public.ecr.aws/uktrade/tunnel:<addon_type>
tunnel_image(t) == <<"public.ecr.aws/uktrade/tunnel", t>>

run_task_request_image_by_name(e, t, nm, arn, name) ==
  [app |-> App, env |-> e, name |-> name, image |-> tunnel_image(nm),
   secret |-> arn, platform_os |-> "linux", platform_arch |-> "arm64"]
\* copilot task run --app <app> --env <env> --task-group-name <task_name>
\*   --image public.ecr.aws/uktrade/tunnel:<addon_type>
\*   --secrets CONNECTION_SECRET=<secret arn> --platform-os linux --platform-arch arm64
run_task_request(e, t, nm, arn, name) ==
  [app |-> App, env |-> e, name |-> name, image |-> tunnel_image(t),
   secret |-> arn, platform_os |-> "linux", platform_arch |-> "arm64"]

\* second half of create_addon_client_task: "copilot task run" through subprocess.call;
\* a zero result means the task and its stack were created
run_task ==
  /\ pc = "run_task"
  /\ called("run_task")
  /\ \E r \in {0, 1} :
       /\ rc' = r
       /\ pc' = after_run_task(r)
       /\ IF r = 0
            THEN /\ tasks' = Append(tasks,
                      run_task_request(env, addon_type, addon_name, secret_arn, task_name)
                        @@ [lastStatus |-> "PROVISIONING", agent |-> "PENDING",
                            access |-> access])
                 /\ stacks' = IF task_name \in DOMAIN stacks
                                THEN stacks
                                ELSE (task_name :> NoStack) @@ stacks
            ELSE UNCHANGED <<tasks, stacks>>
  /\ UNCHANGED <<command, inv, access, env, addon_type, addon_name, cluster_arn, task_name,
                 secret_arn, secret_key,
                 tries, reuse, attached, clusters, secrets_manager, parameter_store,
                 conduit_task_names, name_log, racers>>

\* --------------------------------------------------------- stack patches
\* a patch that finds no stack fails; spec.md section 7 leaves open whether the
\* failure is fatal or logged and passed over, so both outcomes are kept
after_patch_failure(next) == {next, "StackError"}

put_role_policy_always(stack, name) ==
  [stack EXCEPT !.DeleteCloudFormationStack = stack_resource(name), !.updates = @ + 1]
\* the policy is attached to the task role unless the role already has it
\* (spec.md 4.6: reapplying when the policy already exists is a no-op)
put_role_policy(stack, name) ==
  IF stack.DeleteCloudFormationStack = stack_resource(name)
    THEN stack
    ELSE [stack EXCEPT !.DeleteCloudFormationStack = stack_resource(name),
                       !.updates = @ + 1]

update_stack_always(stack, parameter) ==
  [stack EXCEPT !.LogGroupDeletionPolicy = "Retain", !.TaskNameParameter = parameter,
                !.updates = @ + 1]
\* the template is updated in place unless the LogGroup already is retained and
\* the TaskNameParameter resource already is there (spec.md 4.6)
update_stack(stack, parameter) ==
  IF stack.LogGroupDeletionPolicy = "Retain" /\ stack.TaskNameParameter = parameter
    THEN stack
    ELSE [stack EXCEPT !.LogGroupDeletionPolicy = "Retain",
                       !.TaskNameParameter = parameter,
                       !.updates = @ + 1]

\* put the DeleteCloudFormationStack policy on the task role of stack task-<task_name>
add_stack_delete_policy_to_task_role ==
  /\ pc = "add_stack_delete_policy_to_task_role"
  /\ called("add_stack_delete_policy_to_task_role")
  /\ IF task_name \in DOMAIN stacks
       THEN /\ stacks' = [stacks EXCEPT ![task_name] = put_role_policy(@, task_name)]
            /\ pc' = "update_conduit_stack_resources"
       ELSE /\ stacks' = stacks
            /\ pc' \in after_patch_failure("update_conduit_stack_resources")
  /\ UNCHANGED <<command, inv, access, env, addon_type, addon_name, cluster_arn, task_name,
                 secret_arn, secret_key,
                 tries, reuse, rc, attached, clusters, secrets_manager, parameter_store,
                 conduit_task_names, tasks, name_log, racers>>

\* add DeletionPolicy: Retain to the LogGroup and the TaskNameParameter resource
update_conduit_stack_resources ==
  /\ pc = "update_conduit_stack_resources"
  /\ called("update_conduit_stack_resources")
  /\ IF task_name \in DOMAIN stacks
       THEN /\ stacks' = [stacks EXCEPT ![task_name] =
                                 update_stack(@, task_name_parameter(env, addon_name))]
            /\ pc' = "connect_to_addon_client_task"
       ELSE /\ stacks' = stacks
            /\ pc' \in after_patch_failure("connect_to_addon_client_task")
  /\ UNCHANGED <<command, inv, access, env, addon_type, addon_name, cluster_arn, task_name,
                 secret_arn, secret_key,
                 tries, reuse, rc, attached, clusters, secrets_manager, parameter_store,
                 conduit_task_names, tasks, name_log, racers>>

\* ------------------------------------------- connect_to_addon_client_task
\* one iteration of the polling loop: a status check, and the exec session if running
poll_addon_client_task ==
  /\ pc = "connect_to_addon_client_task"
  /\ tries < MaxTries
  /\ tries' = tries + 1
  /\ IF addon_client_is_running(task_name)
       THEN /\ called2("addon_client_is_running", "exec")
            /\ attached' = task_name
            /\ pc' = "Connected"
       ELSE /\ called("addon_client_is_running")
            /\ attached' = attached
            /\ pc' = pc
  /\ UNCHANGED <<command, inv, access, env, addon_type, addon_name, cluster_arn, task_name,
                 secret_arn, secret_key,
                 reuse, rc, world, name_log, racers>>

\* the loop ran out of tries without a running client: CreateTaskTimeoutConduitError
tasks_after_timeout_stopping(ts, name) ==
  [i \in DOMAIN ts |-> IF ts[i].name = name
                         THEN [ts[i] EXCEPT !.lastStatus = "STOPPED", !.agent = "STOPPED"]
                         ELSE ts[i]]
\* the timeout makes no call at all (subprocess.call is not called, no client
\* is mocked): the tasks stay as they are
tasks_after_timeout(ts, name) == ts

create_task_timeout ==
  /\ pc = "connect_to_addon_client_task"
  /\ tries >= MaxTries
  /\ pc' = "Timeout"
  /\ tasks' = tasks_after_timeout(tasks, task_name)
  /\ UNCHANGED <<command, inv, calls, trace, locals, clusters, secrets_manager,
                 parameter_store, conduit_task_names, stacks, name_log, racers>>

\* ------------------------------------------------------- the remote world
\* a launched task moves PROVISIONING -> RUNNING, then its exec agent
\* PENDING -> ACTIVATING -> RUNNING
task_progress(i) ==
  /\ i \in DOMAIN tasks
  /\ \/ /\ tasks[i].lastStatus = "PROVISIONING"
        /\ tasks' = [tasks EXCEPT ![i].lastStatus = "RUNNING", ![i].agent = "ACTIVATING"]
     \/ /\ tasks[i].lastStatus = "RUNNING" /\ tasks[i].agent = "ACTIVATING"
        /\ tasks' = [tasks EXCEPT ![i].agent = "RUNNING"]
  /\ UNCHANGED <<command, inv, pc, calls, trace, locals, clusters, secrets_manager,
                 parameter_store, conduit_task_names, stacks, name_log, racers>>

\* a task stops (its session ended, or it failed)
task_stop(i) ==
  /\ i \in DOMAIN tasks
  /\ tasks[i].lastStatus # "STOPPED"
  /\ tasks' = [tasks EXCEPT ![i].lastStatus = "STOPPED", ![i].agent = "STOPPED"]
  /\ UNCHANGED <<command, inv, pc, calls, trace, locals, clusters, secrets_manager,
                 parameter_store, conduit_task_names, stacks, name_log, racers>>

Next ==
  \/ \E a \in StartInputs : start_conduit(a[1], a[2], a[3])
  \/ validate_addon_type
  \/ get_cluster_arn
  \/ get_or_create_task_name
  \/ check_existing_task
  \/ resolve_secret
  \/ run_task
  \/ add_stack_delete_policy_to_task_role
  \/ update_conduit_stack_resources
  \/ poll_addon_client_task
  \/ create_task_timeout
  \/ \E i \in 1..MaxInvocations : task_progress(i)
  \/ \E i \in 1..MaxInvocations : task_stop(i)

Spec == Init /\ [][Next]_vars

TypeOK ==
  /\ inv \in 0..MaxInvocations
  /\ tries \in 0..MaxTries
  /\ calls \in [Collaborators -> 0..(MaxTries + 1)]
  /\ reuse \in BOOLEAN
  /\ rc \in {-1, 0, 1}
  /\ Len(tasks) <= MaxInvocations

\* ------------------------------------------------------------- properties
n(c) == calls[c]

\* the collaborator calls of this invocation without the parameter write
steps == SelectSeq(trace, LAMBDA c : c # "put_parameter")

C2_Original ==
  reuse => (n("addon_client_is_running") = 1 /\ tries = 0)

\* C2 as amended: on the reuse path start_conduit itself makes exactly one status
\* check and then runs connect_to_addon_client_task, whose loop makes between 1
\* and 15 further checks; the exec follows directly on the first of them that
\* reports running, so an attach is preceded by at least two status checks.
C2_ReusePollsAgain ==
  reuse =>
    /\ n("addon_client_is_running") = 1 + tries
    /\ tries <= 15
    /\ SubSeq(steps, 1, 3) = <<"get_cluster_arn", "get_or_create_task_name",
                                "addon_client_is_running">>
    /\ pc = "Connected" =>
         /\ tries >= 1
         /\ Len(steps) = 3 + tries + 1
         /\ \A i \in 4..(3 + tries) : steps[i] = "addon_client_is_running"
         /\ steps[Len(steps)] = "exec"
    /\ pc = "Timeout" => (tries = 15 /\ n("exec") = 0)

C2_Witness ==
  reuse /\ pc = "Connected" /\ n("addon_client_is_running") = 2 /\ tries = 1

\* C3: an addon type outside the supported set ends start_conduit in
\* InvalidAddonType with no collaborator called at all.
C3_InvalidAddonTypeCallsNothing ==
  (inv > 0 /\ addon_type \notin CONDUIT_ADDON_TYPES) =>
    /\ pc \in {"validate", "InvalidAddonType"}
    /\ calls = NoCalls
    /\ trace = <<>>
    /\ task_name = NoName /\ attached = NoName

C3_Witness == pc = "InvalidAddonType" /\ addon_type = nope /\ calls = NoCalls

\* C4: when get_cluster_arn finds no cluster, start_conduit ends in NoCluster and
\* nothing but the cluster lookup has been called.
C4_NoClusterCallsNothingElse ==
  (addon_type \in CONDUIT_ADDON_TYPES /\ env \notin clusters
     /\ pc \notin {"validate", "get_cluster_arn"}) =>
    /\ pc = "NoCluster"
    /\ calls = [NoCalls EXCEPT !["get_cluster_arn"] = 1]
    /\ trace = <<"get_cluster_arn">>
    /\ task_name = NoName /\ attached = NoName

C4_Witness == pc = "NoCluster" /\ env = "staging" /\ n("get_cluster_arn") = 1

\* the connection secret of this invocation is in neither store
secret_absent ==
  /\ secret_path(env, secret_name(addon_name)) \notin secrets_manager
  /\ secret_path(env, secret_name(addon_name)) \notin parameter_store

\* C5: when the secret is in neither store, the invocation that asks for it ends
\* in NoSecret; run-task, both patches, the poller and the exec are never called.
C5_NoSecretLaunchesNothing ==
  (n("get_connection_secret_arn") > 0 /\ secret_absent) =>
    /\ pc = "NoSecret"
    /\ secret_arn = NoArn
    /\ n("run_task") = 0 /\ rc = -1
    /\ n("add_stack_delete_policy_to_task_role") = 0
    /\ n("update_conduit_stack_resources") = 0
    /\ tries = 0 /\ n("addon_client_is_running") = 1
    /\ n("exec") = 0 /\ attached = NoName

C5_Witness == pc = "NoSecret" /\ secret_absent /\ n("get_connection_secret_arn") = 1

\* C6 as stated: after a non-zero result of the run-task call neither stack patch,
\* nor the poller, nor the exec is called.
C6_Claim ==
  rc > 0 =>
    /\ n("add_stack_delete_policy_to_task_role") = 0
    /\ n("update_conduit_stack_resources") = 0
    /\ tries = 0
    /\ n("exec") = 0

\* C7: the polling loop makes at most 15 status checks, raises the timeout only
\* after exactly 15 checks that all said not running, and then no exec is issued.
C7_FifteenPolls ==
  /\ tries <= 15
  /\ n("addon_client_is_running") <= 16
  /\ pc = "Timeout" =>
       /\ tries = 15
       /\ n("addon_client_is_running") = 16
       /\ n("exec") = 0 /\ attached = NoName
       /\ \A i \in 1..Len(trace) : trace[i] # "exec"
  /\ (pc = "connect_to_addon_client_task" /\ tries > 0) => n("exec") = 0

C7_Witness == pc = "Timeout" /\ tries = 15 /\ ~reuse /\ rc = 0

\* C8: of the get_or_create_task_name calls made for one parameter, every one
\* returns the name the first returned, only the first can write, and a call
\* that finds a stored name returns it without writing.
C8_GetOrCreateIdempotent ==
  \A i, j \in DOMAIN name_log :
    (i < j /\ name_log[i].param = name_log[j].param) =>
      /\ name_log[j].name = name_log[i].name
      /\ ~name_log[j].wrote
      /\ name_log[i].param \in DOMAIN conduit_task_names
      /\ conduit_task_names[name_log[i].param] = name_log[i].name

C8_Witness ==
  /\ Len(name_log) = 2
  /\ name_log[1].param = name_log[2].param
  /\ name_log[1].wrote /\ ~name_log[2].wrote

\* the name stored for the key a task name was made for
canonical(name) == conduit_task_names[task_name_parameter(name.env, name.addon)]

has_canonical(name) == task_name_parameter(name.env, name.addon) \in DOMAIN conduit_task_names

C10_LaunchPathOrder ==
  (pc = "Connected" /\ ~reuse /\ rc = 0) =>
    /\ SubSeq(steps, 1, 7) = <<"get_cluster_arn", "get_or_create_task_name",
                                "addon_client_is_running", "get_connection_secret_arn",
                                "run_task", "add_stack_delete_policy_to_task_role",
                                "update_conduit_stack_resources">>
    /\ tries >= 1
    /\ Len(steps) = 7 + tries + 1
    /\ \A i \in 8..(7 + tries) : steps[i] = "addon_client_is_running"
    /\ steps[Len(steps)] = "exec"
    /\ n("run_task") = 1 /\ n("get_connection_secret_arn") = 1
    /\ n("add_stack_delete_policy_to_task_role") = 1
    /\ n("update_conduit_stack_resources") = 1
    /\ n("exec") = 1

C10_Witness ==
  /\ pc = "Connected" /\ ~reuse /\ rc = 0 /\ tries > 1
  /\ n("put_parameter") = 1

\* ------------------------------------------- get_connection_secret_arn alone
\* the secret paths the stores may hold when the resolver is exercised alone
SecretPaths == {secret_path("development", secret_name(postgres)),
                secret_path("development", secret_name(redis)),
                secret_path("development", secret_name(named_postgres))}

\* the (env, secret name source) pairs the resolver is called with
ResolveInputs == {<<"development", postgres>>, <<"development", redis>>,
                  <<"development", named_postgres>>, <<"staging", postgres>>}

\* any contents of the two stores, nothing else in the world
InitResolve ==
  /\ inv = 0
  /\ pc = "idle"
  /\ env = "" /\ addon_type = None /\ addon_name = None
  /\ cluster_arn = NoArn /\ task_name = NoName /\ secret_arn = NoArn
  /\ secret_key = None
  /\ tries = 0
  /\ calls = NoCalls
  /\ trace = <<>>
  /\ reuse = FALSE
  /\ rc = -1
  /\ attached = NoName
  /\ clusters = {"development"}
  /\ secrets_manager \in SUBSET SecretPaths
  /\ parameter_store \in SUBSET SecretPaths
  /\ conduit_task_names = <<>>
  /\ tasks = <<>>
  /\ stacks = <<>>
  /\ name_log = <<>>
  /\ exit_code = -1 /\ output = NoOutput
  /\ access = NoAccess /\ access_flag = NoAccess
  /\ racers = NoRacers
  /\ stopped = {}
  /\ InitHelpers

\* a caller asks for the connection secret of addon name nm in environment e
call_get_connection_secret_arn(e, nm) ==
  /\ pc \in {"idle", "NoSecret", "run_task"}
  /\ env' = e /\ addon_name' = nm
  /\ secret_arn' = NoArn /\ secret_key' = None
  /\ calls' = NoCalls /\ trace' = <<>>
  /\ pc' = "get_connection_secret_arn"
  /\ UNCHANGED <<command, inv, access, addon_type, cluster_arn, task_name, tries, reuse, rc,
                 attached,
                 world, name_log, racers>>

NextResolve ==
  \/ \E a \in ResolveInputs : call_get_connection_secret_arn(a[1], a[2])
  \/ resolve_secret

SpecResolve == InitResolve /\ [][NextResolve]_vars

\* the path the current call resolves
resolved_path == secret_path(env, secret_name(addon_name))

\* the store asked first and the store asked second
primary_store == parameter_store
fallback_store == secrets_manager
primary_reference(p) == <<"arn:aws:ssm", p>>
fallback_reference(p) == <<"arn:aws:secretsmanager", p>>

MaxLen == 3              \* longest addon name tried

\* characters addon names are built from: letters of both cases, a digit, and
\* the separators hyphen, underscore and space
NameChars == {"a", "B", "1", "-", "_", " "}

Digits == {"0", "1", "2", "3", "4", "5", "6", "7", "8", "9"}

\* every addon name of at most MaxLen characters
AddonNameStrings == UNION {[1..k -> NameChars] : k \in 0..MaxLen}

InitNormalise ==
  /\ inv = 0
  /\ pc = "idle"
  /\ env = "" /\ addon_type = None
  /\ addon_name \in AddonNameStrings
  /\ cluster_arn = NoArn /\ task_name = NoName /\ secret_arn = NoArn
  /\ secret_key = None
  /\ tries = 0
  /\ calls = NoCalls
  /\ trace = <<>>
  /\ reuse = FALSE
  /\ rc = -1
  /\ attached = NoName
  /\ clusters = {}
  /\ secrets_manager = {}
  /\ parameter_store = {}
  /\ conduit_task_names = <<>>
  /\ tasks = <<>>
  /\ stacks = <<>>
  /\ name_log = <<>>
  /\ exit_code = -1 /\ output = NoOutput
  /\ access = NoAccess /\ access_flag = NoAccess
  /\ racers = NoRacers
  /\ stopped = {}
  /\ InitHelpers

\* the secret name of addon_name is computed
normalise ==
  /\ pc = "idle"
  /\ secret_key' = secret_name(addon_name)
  /\ pc' = "normalised"
  /\ UNCHANGED <<command, inv, access, calls, trace, env, addon_type, addon_name, cluster_arn,
                 task_name,
                 secret_arn, tries, reuse, rc, attached, world, name_log, racers>>

\* the result is used as an addon name and normalised once more
normalise_again ==
  /\ pc = "normalised"
  /\ addon_name' = secret_key
  /\ secret_key' = secret_name(secret_key)
  /\ pc' = "normalised_twice"
  /\ UNCHANGED <<command, inv, access, calls, trace, env, addon_type, cluster_arn, task_name,
                 secret_arn, tries, reuse, rc, attached, world, name_log, racers>>

NextNormalise == normalise \/ normalise_again

SpecNormalise == InitNormalise /\ [][NextNormalise]_vars

\* C12: the secret name is defined for every addon name, consists only of
\* uppercase letters, digits and underscores, and normalising it again changes
\* nothing.
C12_Claim ==
  /\ pc \in {"normalised", "normalised_twice"} =>
       /\ DOMAIN secret_key = DOMAIN addon_name
       /\ \A i \in 1..Len(secret_key) :
            \/ \E j \in 1..Len(UpperCase) : UpperCase[j] = secret_key[i]
            \/ secret_key[i] \in Digits
            \/ secret_key[i] = "_"
  /\ pc = "normalised_twice" => secret_key = addon_name

\* ------------------------------------------------------ the conduit command
\* click rejects an addon type outside the declared choice with a usage error
\* (exit code 2) before validate_version or start_conduit are called
usage_error(e, t, nm) ==
  /\ inv' = inv + 1
  /\ env' = e /\ addon_type' = t /\ addon_name' = nm /\ access' = NoAccess
  /\ cluster_arn' = NoArn /\ task_name' = NoName /\ secret_arn' = NoArn
  /\ secret_key' = None
  /\ tries' = 0 /\ calls' = NoCalls /\ trace' = <<>>
  /\ reuse' = FALSE /\ rc' = -1 /\ attached' = NoName
  /\ pc' = "idle"
  /\ exit_code' = 2
  /\ output' = <<"Invalid value", t, "is not one of", CONDUIT_ADDON_TYPES>>
  /\ UNCHANGED <<world, name_log, racers, stopped, helpers>>

\* command lines tried: environment, addon type, addon name, access flag
CommandInputs == {<<"development", postgres, None, NoAccess>>,
                  <<"development", postgres, None, "write">>,
                  <<"development", redis, None, "read">>,
                  <<"staging", postgres, None, NoAccess>>,
                  <<"development", nope, None, NoAccess>>}

\* the command is run: conduit ADDON_TYPE --app .. --env .. [--addon-name ..]
\* [--access ..]; without an access flag start is called with "read"
conduit(e, t, nm, f) ==
  /\ inv < MaxInvocations
  /\ pc = "idle" \/ exit_code # -1 \/ pc = "StackError"
  /\ access_flag' = f
  /\ IF t \in CONDUIT_ADDON_TYPES
       THEN start(e, t, nm, IF f = NoAccess THEN default_access ELSE f)
       ELSE usage_error(e, t, nm)

\* exit code of the command for each outcome of start_conduit it handles
conduit_exit_code(outcome) == IF outcome = "Connected" THEN 0 ELSE 1

\* message the command prints in red for each error it handles
conduit_message(outcome) ==
  CASE outcome = "NoCluster" -> <<"No ECS cluster found for", App, env>>
    [] outcome = "NoSecret" ->
         <<"No secret called", IF addon_name = None THEN addon_type ELSE addon_name,
           App, env>>
    [] outcome = "Timeout" ->
         <<"Client ECS task has failed to start for", addon_type, App, env>>
    [] OTHER -> NoOutput

\* start_conduit returned or raised: the command reports and exits
conduit_exit ==
  /\ pc \in {"Connected", "NoCluster", "NoSecret", "Timeout"}
  /\ exit_code = -1
  /\ exit_code' = conduit_exit_code(pc)
  /\ output' = conduit_message(pc)
  /\ UNCHANGED <<inv, pc, calls, trace, locals, world, name_log, racers, access_flag,
                 stopped, helpers>>

NextCommand ==
  \/ \E a \in CommandInputs : conduit(a[1], a[2], a[3], a[4])
  \/ conduit_exit
  \/ validate_addon_type
  \/ get_cluster_arn
  \/ get_or_create_task_name
  \/ check_existing_task
  \/ resolve_secret
  \/ run_task
  \/ add_stack_delete_policy_to_task_role
  \/ update_conduit_stack_resources
  \/ poll_addon_client_task
  \/ create_task_timeout
  \/ \E i \in 1..MaxInvocations : task_progress(i)
  \/ \E i \in 1..MaxInvocations : task_stop(i)

SpecCommand == Init /\ [][NextCommand]_vars

\* C13: when the command has exited, a successful attach gave exit code 0 and
\* every failure (invalid addon type, no cluster, no secret, failed launch,
\* readiness timeout) gave exit code 1 with a message naming its subject.
C13_Claim ==
  exit_code # -1 =>
    /\ pc = "Connected" /\ rc # 1 => exit_code = 0
    /\ addon_type \notin CONDUIT_ADDON_TYPES => exit_code = 1 /\ output # NoOutput
    /\ pc \in {"NoCluster", "NoSecret", "Timeout"} => exit_code = 1 /\ output # NoOutput
    /\ rc = 1 => exit_code = 1 /\ output # NoOutput

\* tasks of that name that have been launched and have not stopped
live_tasks(name) == {i \in DOMAIN tasks : tasks[i].name = name /\ tasks[i].lastStatus # "STOPPED"}

\* C14: all invocations for one key use one task name, an invocation whose
\* existing-task check finds the earlier task running launches nothing, and no
\* task name ever has more than one live task.
C14_Claim ==
  /\ \A i, j \in DOMAIN name_log :
       name_log[i].param = name_log[j].param => name_log[i].name = name_log[j].name
  /\ reuse => n("run_task") = 0
  /\ \A i \in DOMAIN tasks : Cardinality(live_tasks(tasks[i].name)) <= 1

\* C15: a get_or_create_task_name call that found nothing stored returns
\* task-<application>-<environment>-conduit-<addon name>- followed by exactly
\* twelve lowercase letters or digits, and when the call has returned the
\* parameter holds that same name.
C15_FreshNameFormatAndStored ==
  /\ \A i \in DOMAIN name_log :
       name_log[i].wrote =>
         LET s == task_name_string(name_log[i].name) IN
           /\ SubSeq(s, 1, 5) = <<"task", App, name_log[i].param[3], "conduit",
                                  name_log[i].param[5]>>
           /\ Len(s[6]) = 12
           /\ \A k \in 1..Len(s[6]) :
                \/ \E j \in 1..Len(LowerCase) : LowerCase[j] = s[6][k]
                \/ s[6][k] \in Digits
  /\ (pc = "addon_client_is_running" /\ name_log # <<>> /\ name_log[Len(name_log)].wrote) =>
       /\ name_log[Len(name_log)].param \in DOMAIN conduit_task_names
       /\ conduit_task_names[name_log[Len(name_log)].param] = task_name
       /\ name_log[Len(name_log)].name = task_name

C15_Witness ==
  /\ pc = "addon_client_is_running"
  /\ name_log # <<>> /\ name_log[Len(name_log)].wrote
  /\ task_name = mock_task_name("development", postgres, 1)
  /\ conduit_task_names[task_name_parameter("development", postgres)] = task_name

\* the (task status, agent status) pairs the cluster reports for a task name
reported(name) == {<<tasks[i].lastStatus, tasks[i].agent>> : i \in {j \in DOMAIN tasks : tasks[j].name = name}}

\* C16: every status check, the single existing-task check and each poll alike,
\* answers ready exactly when the cluster reports the task running with its
\* agent running; no task, a task not running, or an agent in another status
\* answer not ready.
C16_ReadyIffTaskAndAgentRunning ==
  [][ n("addon_client_is_running")' = n("addon_client_is_running") + 1 =>
        LET ready == IF pc = "addon_client_is_running" THEN reuse' ELSE pc' = "Connected" IN
          /\ ready <=> <<"RUNNING", "RUNNING">> \in reported(task_name)
          /\ reported(task_name) = {} => ~ready
          /\ reported(task_name) \subseteq {<<"RUNNING", "ACTIVATING">>,
                                            <<"PROVISIONING", "PENDING">>,
                                            <<"STOPPED", "STOPPED">>} => ~ready ]_vars

C16_Witness ==
  /\ pc = "Connected" /\ ~reuse
  /\ n("addon_client_is_running") = 3
  /\ reported(task_name) = {<<"RUNNING", "RUNNING">>}

\* ------------------------------------------------- the stack patches alone
\* addon names the two patch tests are parametrized with
PatchAddonNames == {postgres, redis, opensearch}

\* the stack of the task before the patches run: in any state of partial
\* application
PatchStacks(name, parameter) ==
  {[DeleteCloudFormationStack |-> d, LogGroupDeletionPolicy |-> l[1],
    TaskNameParameter |-> l[2], updates |-> 0] :
     d \in {NoArn, stack_resource(name)},
     l \in {<<"Delete", NoArn>>, <<"Retain", parameter>>}}

\* a task name is given and its stack is there (mock_stack) or missing
InitPatch ==
  /\ inv = 0
  /\ pc = "add_stack_delete_policy_to_task_role"
  /\ env = "development" /\ addon_type \in PatchAddonNames
  /\ addon_name = addon_type
  /\ task_name = mock_task_name(env, addon_name, 1)
  /\ cluster_arn = NoArn /\ secret_arn = NoArn
  /\ secret_key = None
  /\ tries = 0
  /\ calls = NoCalls
  /\ trace = <<>>
  /\ reuse = FALSE
  /\ rc = -1
  /\ attached = NoName
  /\ clusters = {"development"}
  /\ secrets_manager = {}
  /\ parameter_store = {}
  /\ conduit_task_names = <<>>
  /\ tasks = <<>>
  /\ \/ stacks = <<>>
     \/ \E s \in PatchStacks(task_name, task_name_parameter(env, addon_name)) :
          stacks = (task_name :> s)
  /\ name_log = <<>>
  /\ exit_code = -1 /\ output = NoOutput
  /\ access = NoAccess /\ access_flag = NoAccess
  /\ racers = NoRacers
  /\ stopped = {}
  /\ InitHelpers

\* the two patches are applied once more to the same task name
patch_again ==
  /\ pc \in {"connect_to_addon_client_task", "StackError"}
  /\ inv < MaxInvocations
  /\ inv' = inv + 1
  /\ calls' = NoCalls /\ trace' = <<>>
  /\ pc' = "add_stack_delete_policy_to_task_role"
  /\ UNCHANGED <<locals, world, name_log, racers, command>>

NextPatch ==
  \/ add_stack_delete_policy_to_task_role
  \/ update_conduit_stack_resources
  \/ patch_again

SpecPatch == InitPatch /\ [][NextPatch]_vars

\* C17: after add_stack_delete_policy_to_task_role the task role has the
\* delete-stack policy for exactly that stack, after update_conduit_stack_resources
\* the LogGroup is retained and the task name parameter is in the template; a
\* patch applied to a stack that already has its part makes no update and leaves
\* the stacks as they were.
C17_PatchesIdempotent ==
  [][ /\ ( /\ pc = "add_stack_delete_policy_to_task_role" /\ pc' # pc
           /\ task_name \in DOMAIN stacks ) =>
           /\ stacks'[task_name].DeleteCloudFormationStack = stack_resource(task_name)
           /\ stacks[task_name].DeleteCloudFormationStack = stack_resource(task_name)
                => stacks' = stacks
           /\ stacks'[task_name].updates <= stacks[task_name].updates + 1
      /\ ( /\ pc = "update_conduit_stack_resources" /\ pc' # pc
           /\ task_name \in DOMAIN stacks ) =>
           /\ stacks'[task_name].LogGroupDeletionPolicy = "Retain"
           /\ stacks'[task_name].TaskNameParameter = task_name_parameter(env, addon_name)
           /\ ( /\ stacks[task_name].LogGroupDeletionPolicy = "Retain"
                /\ stacks[task_name].TaskNameParameter = task_name_parameter(env, addon_name) )
                => stacks' = stacks
           /\ stacks'[task_name].updates <= stacks[task_name].updates + 1 ]_vars

C17_Witness ==
  /\ inv = 1 /\ pc = "connect_to_addon_client_task"
  /\ task_name \in DOMAIN stacks
  /\ stacks[task_name] = [DeleteCloudFormationStack |-> stack_resource(task_name),
                          LogGroupDeletionPolicy |-> "Retain",
                          TaskNameParameter |-> task_name_parameter(env, addon_name),
                          updates |-> 2]

\* C18: a command line without an access flag has start work in mode "read";
\* while an invocation runs exactly one of the two modes is in effect, no step
\* of the invocation changes it, and the task the invocation launches carries it.
C18_OneAccessMode ==
  [][ /\ (pc' # "idle" /\ access_flag' = NoAccess) => access' = "read"
      /\ (pc' # "idle" /\ access_flag' # NoAccess) => access' = access_flag'
      /\ pc' # "idle" => access' \in {"read", "write"}
      /\ inv' = inv => access' = access
      /\ rc' = 0 => tasks'[Len(tasks')].access = access' ]_vars

C18_Witness ==
  /\ pc = "Connected" /\ rc = 0 /\ exit_code = 0
  /\ access_flag = NoAccess /\ access = "read"
  /\ tasks[Len(tasks)].access = "read"

\* ------------------------- two invocations inside get_or_create_task_name
\* the invocations that run at the same time for one key
Racers == {1, 2}

\* an invocation about to call get_or_create_task_name
RacerAtStart == [at |-> "get_parameter", saw |-> NoName, name |-> NoName, minted |-> FALSE]

\* both invocations are about to get the task name of the same key; the
\* parameter is absent or holds a name from an earlier run
InitRace ==
  /\ inv = 0
  /\ pc = "idle"
  /\ env = "development" /\ addon_type \in {postgres, redis}
  /\ addon_name = addon_type
  /\ cluster_arn = NoArn /\ task_name = NoName /\ secret_arn = NoArn
  /\ secret_key = None
  /\ tries = 0
  /\ calls = NoCalls
  /\ trace = <<>>
  /\ reuse = FALSE
  /\ rc = -1
  /\ attached = NoName
  /\ clusters = {"development"}
  /\ secrets_manager = {}
  /\ parameter_store = {}
  /\ \/ conduit_task_names = <<>>
     \/ \E id \in RandomIds :
          conduit_task_names = (task_name_parameter(env, addon_name) :>
                                  mock_task_name(env, addon_name, id))
  /\ tasks = <<>>
  /\ stacks = <<>>
  /\ name_log = <<>>
  /\ exit_code = -1 /\ output = NoOutput
  /\ access = NoAccess /\ access_flag = NoAccess
  /\ racers = [r \in Racers |-> RacerAtStart]
  /\ stopped = {}
  /\ InitHelpers

\* the read of get_or_create_task_name: the stored name is returned, or the
\* parameter is found absent
racer_get_parameter(r) ==
  /\ racers[r].at = "get_parameter"
  /\ LET p == task_name_parameter(env, addon_name) IN
       IF task_name_is_stored(p)
         THEN /\ racers' = [racers EXCEPT ![r].at = "returned",
                                          ![r].saw = conduit_task_names[p],
                                          ![r].name = conduit_task_names[p]]
              /\ name_log' = Append(name_log, [param |-> p, name |-> conduit_task_names[p],
                                               wrote |-> FALSE])
         ELSE /\ racers' = [racers EXCEPT ![r].at = "put_parameter"]
              /\ name_log' = name_log
  /\ UNCHANGED <<inv, pc, calls, trace, locals, world, command>>

\* the create of get_or_create_task_name, some time after the read: a name with
\* a fresh random id is stored, whatever the parameter holds by now
racer_put_parameter(r) ==
  /\ racers[r].at = "put_parameter"
  /\ \E id \in RandomIds :
       LET p == task_name_parameter(env, addon_name)
           fresh == mock_task_name(env, addon_name, id) IN
         /\ conduit_task_names' = put_parameter(conduit_task_names, p, fresh)
         /\ racers' = [racers EXCEPT ![r].at = "returned", ![r].name = fresh,
                                     ![r].minted = TRUE]
         /\ name_log' = Append(name_log, [param |-> p, name |-> fresh, wrote |-> TRUE])
  /\ UNCHANGED <<inv, pc, calls, trace, locals, command, clusters, secrets_manager,
                 parameter_store, tasks, stacks>>

\* the invocation goes on to its existing-task check with the name it got
racer_proceed(r) ==
  /\ racers[r].at = "returned"
  /\ racers' = [racers EXCEPT ![r].at = "addon_client_is_running"]
  /\ UNCHANGED <<inv, pc, calls, trace, locals, world, name_log, command>>

NextRace ==
  \/ \E r \in Racers : racer_get_parameter(r)
  \/ \E r \in Racers : racer_put_parameter(r)
  \/ \E r \in Racers : racer_proceed(r)

SpecRace == InitRace /\ [][NextRace]_vars

\* C19: the read and the create of get_or_create_task_name are separate steps
\* with no lock between them. An invocation that read a stored name uses it and
\* stores nothing; one that read 'absent' stores a fresh name whatever has been
\* stored since, so the parameter holds the name stored last; two invocations
\* hold different names only when both read 'absent' and both stored.
C19_ReadThenCreateNotAtomic ==
  /\ \A r \in Racers :
       /\ racers[r].minted => racers[r].saw = NoName
       /\ (racers[r].at \in {"returned", "addon_client_is_running"} /\ ~racers[r].minted) =>
            (racers[r].name = racers[r].saw /\ racers[r].saw # NoName)
  /\ (\E i \in DOMAIN name_log : name_log[i].wrote) =>
       LET last == CHOOSE i \in DOMAIN name_log :
                     /\ name_log[i].wrote
                     /\ \A j \in DOMAIN name_log : name_log[j].wrote => j <= i IN
         /\ name_log[last].param \in DOMAIN conduit_task_names
         /\ conduit_task_names[name_log[last].param] = name_log[last].name
  /\ \A r, s \in Racers :
       ( /\ racers[r].at = "addon_client_is_running"
         /\ racers[s].at = "addon_client_is_running"
         /\ racers[r].name # racers[s].name ) =>
           (racers[r].minted /\ racers[s].minted)

\* both invocations read 'absent', both stored, and they go on with different names
C19_Witness ==
  /\ \A r \in Racers : racers[r].at = "addon_client_is_running" /\ racers[r].minted
  /\ racers[1].name # racers[2].name
  /\ Len(name_log) = 2

\* ------------------------------------------- the process is stopped part-way
\* where an invocation is between get_or_create_task_name returning and the
\* launch having been made
BeforeOrDuringLaunch == {"addon_client_is_running", "get_connection_secret_arn", "run_task",
                         "add_stack_delete_policy_to_task_role"}

\* the process is terminated from outside; nothing is rolled back
process_stops ==
  /\ pc \in BeforeOrDuringLaunch
  /\ pc' = "Stopped"
  /\ stopped' = stopped \cup {inv}
  /\ UNCHANGED <<inv, calls, trace, locals, world, name_log, racers, exit_code, output,
                 access_flag, helpers>>

\* start calls made one after the other for one key
RetryInputs == {<<"development", postgres, None>>, <<"development", redis, None>>}

NextCrash ==
  \/ \E a \in RetryInputs : start_conduit(a[1], a[2], a[3])
  \/ process_stops
  \/ validate_addon_type
  \/ get_cluster_arn
  \/ get_or_create_task_name
  \/ check_existing_task
  \/ resolve_secret
  \/ run_task
  \/ add_stack_delete_policy_to_task_role
  \/ update_conduit_stack_resources
  \/ poll_addon_client_task
  \/ create_task_timeout
  \/ \E i \in 1..MaxInvocations : task_progress(i)
  \/ \E i \in 1..MaxInvocations : task_stop(i)

SpecCrash == Init /\ [][NextCrash]_vars

\* C20: whenever the launch request is about to be made or has been made, and
\* whenever the process has been stopped after get_or_create_task_name returned,
\* the task name is already stored under its parameter; a start for the same key
\* that follows a stopped one then reads that name and stores none.
C20_PersistedBeforeLaunch ==
  /\ (pc \in BeforeOrDuringLaunch \/ n("run_task") > 0 \/ (pc = "Stopped" /\ task_name # NoName)) =>
       /\ task_name_parameter(env, addon_name) \in DOMAIN conduit_task_names
       /\ conduit_task_names[task_name_parameter(env, addon_name)] = task_name
  /\ \A i \in DOMAIN name_log :
       ( /\ i > 1 /\ i - 1 \in stopped /\ Len(name_log) = inv
         /\ name_log[i].param = name_log[i - 1].param ) =>
           /\ name_log[i].name = name_log[i - 1].name
           /\ ~name_log[i].wrote

C20_Witness ==
  /\ inv = 2 /\ 1 \in stopped /\ pc = "addon_client_is_running"
  /\ Len(name_log) = 2 /\ name_log[1].param = name_log[2].param
  /\ name_log[1].wrote /\ ~name_log[2].wrote
  /\ task_name = name_log[1].name
  /\ tasks = <<>>

\* C21: the exec session is opened only by a poll that has just seen the task
\* and its agent running, Connected is entered only from that poll, at most one
\* exec is opened in an invocation, and an invocation that ended in NoCluster,
\* NoSecret or Timeout, or whose launch failed, opens none.
C21_Claim ==
  [][ /\ n("exec")' > n("exec") =>
           /\ pc = "connect_to_addon_client_task" /\ pc' = "Connected"
           /\ <<"RUNNING", "RUNNING">> \in reported(task_name)
           /\ n("addon_client_is_running")' = n("addon_client_is_running") + 1
           /\ attached' = task_name
      /\ (pc' = "Connected" /\ pc # "Connected") => pc = "connect_to_addon_client_task"
      /\ n("exec")' <= 1
      /\ (pc \in {"NoCluster", "NoSecret", "Timeout"} /\ inv' = inv) =>
           (pc' = pc /\ n("exec")' = n("exec") /\ attached' = attached)
      /\ rc' = 1 => n("exec")' = 0 ]_vars

\* C22: within one invocation run-task is called at most once and there is one
\* polling round of at most MaxTries checks; once the launch has failed or the
\* polls have run out the invocation is over: it makes no further call.
C22_Claim ==
  [][ /\ n("run_task")' <= 1
      /\ n("addon_client_is_running")' <= MaxTries + 1
      /\ (pc = "Timeout" /\ inv' = inv) => (pc' = pc /\ calls' = calls)
      /\ (rc = 1 /\ inv' = inv) => (calls' = calls /\ pc' \in Terminal) ]_vars

\* C23: the step into Timeout changes nothing in the remote world, and an
\* invocation that launched and then timed out leaves its task launched and not
\* stopped by it, its name stored and its stack patched; no call follows.
C23_TimeoutRollsNothingBack ==
  [][ /\ (pc = "connect_to_addon_client_task" /\ pc' = "Timeout") =>
           (tasks' = tasks /\ stacks' = stacks /\ conduit_task_names' = conduit_task_names
            /\ calls' = calls)
      /\ (pc' = "Timeout" /\ rc' = 0) =>
           /\ \E i \in DOMAIN tasks' : tasks'[i].name = task_name'
           /\ task_name_parameter(env', addon_name') \in DOMAIN conduit_task_names'
           /\ conduit_task_names'[task_name_parameter(env', addon_name')] = task_name'
           /\ task_name' \in DOMAIN stacks'
           /\ stacks'[task_name'].DeleteCloudFormationStack = stack_resource(task_name')
           /\ stacks'[task_name'].LogGroupDeletionPolicy = "Retain"
      /\ (pc = "Timeout" /\ inv' = inv) =>
           (calls' = calls /\ stacks' = stacks /\ conduit_task_names' = conduit_task_names
            /\ Len(tasks') = Len(tasks)) ]_vars

C23_Witness ==
  /\ pc = "Timeout" /\ rc = 0 /\ ~reuse /\ tries = MaxTries
  /\ Len(tasks) = 1 /\ tasks[1].name = task_name /\ tasks[1].lastStatus = "RUNNING"
  /\ tasks[1].agent = "ACTIVATING"
  /\ task_name \in DOMAIN stacks

\* ---------------------------------------------------------------- launch
\* start calls with and without an addon name of their own
LaunchInputs == {<<"development", postgres, None>>,
                 <<"development", postgres, named_postgres>>,
                 <<"development", redis, named_postgres>>}

NextLaunch ==
  \/ \E a \in LaunchInputs : start_conduit(a[1], a[2], a[3])
  \/ validate_addon_type
  \/ get_cluster_arn
  \/ get_or_create_task_name
  \/ check_existing_task
  \/ resolve_secret
  \/ run_task
  \/ add_stack_delete_policy_to_task_role
  \/ update_conduit_stack_resources
  \/ poll_addon_client_task
  \/ create_task_timeout
  \/ \E i \in 1..MaxInvocations : task_progress(i)
  \/ \E i \in 1..MaxInvocations : task_stop(i)

SpecLaunch == Init /\ [][NextLaunch]_vars

\* get_connection_secret_arn is called with "NAMED_POSTGRES" for named_postgres
NAMED_POSTGRES == <<"N", "A", "M", "E", "D", "_", "P", "O", "S", "T", "G", "R", "E", "S">>

\* C24: the task a launch creates runs the tunnel image of the addon type, whatever
\* the addon name, carries the reference (an ARN, of the parameter store or of
\* the secrets manager) of the secret stored under the normalised addon name,
\* and runs on linux/arm64; for type postgres and name named_postgres that is the
\* postgres image with the secret NAMED_POSTGRES.
C24_RequestFromTypeAndName ==
  [][ Len(tasks') > Len(tasks) =>
        LET task == tasks'[Len(tasks')] IN
          /\ task.image = <<"public.ecr.aws/uktrade/tunnel", addon_type>>
          /\ task.secret \in {<<"arn:aws:ssm", secret_path(env, secret_name(addon_name))>>,
                              <<"arn:aws:secretsmanager",
                                secret_path(env, secret_name(addon_name))>>}
          /\ task.secret[2] \in parameter_store \cup secrets_manager
          /\ task.platform_os = "linux" /\ task.platform_arch = "arm64"
          /\ task.name = task_name /\ task.env = env /\ task.app = App
          /\ (addon_type = postgres /\ addon_name = named_postgres) =>
               /\ task.image[2] = postgres
               /\ task.secret[2] = secret_path(env, NAMED_POSTGRES) ]_vars

C24_Witness ==
  /\ addon_type = postgres /\ addon_name = named_postgres
  /\ n("run_task") = 1 /\ rc = 0
  /\ \E i \in DOMAIN tasks :
       /\ tasks[i].name = task_name
       /\ tasks[i].image = tunnel_image(postgres)
       /\ tasks[i].secret = <<"arn:aws:ssm", secret_path("development", NAMED_POSTGRES)>>

\* ------------------------------------------------- utils/files.py: the cache
MaxTicks == 4

others_cache == <<conduit_vars, wait_vars, cert_vars, mkfile_vars, defaults_vars, ext_vars>>

\* the clock moves by a second or by a second less than a day
time_passes ==
  /\ ticks < MaxTicks
  /\ \E d \in {1, Day - 1} : clock' = clock + d
  /\ ticks' = ticks + 1
  /\ refresh_required' = "unset"
  /\ UNCHANGED <<cache_exists, cache_file, resource_name, others_cache>>

\* write_to_cache(resource_name, supported_versions): the entry of the resource
\* is replaced, the other entries of an existing file are kept
write_to_cache(r) ==
  /\ cache_exists' = TRUE
  /\ cache_file' = (r :> [versions |-> SupportedVersions,
                          date_retrieved |-> strftime(clock)])
                     @@ (IF cache_exists THEN cache_file ELSE <<>>)
  /\ refresh_required' = "unset"
  /\ UNCHANGED <<clock, ticks, resource_name, others_cache>>

\* delta.days of (current_datetime - cached_datetime) against the interval
check_if_cached_datetime_is_greater_than_interval(date_retrieved, interval_in_days) ==
  LET delta == clock - strptime(date_retrieved)
  IN  IF delta \div Day < interval_in_days THEN "False" ELSE "True"

\* no file: True; an entry: the age check; a file without the entry: the
\* function ends without a return statement, which yields None
cache_refresh_required(r) ==
  IF ~cache_exists THEN "True"
  ELSE IF r \in DOMAIN cache_file
    THEN check_if_cached_datetime_is_greater_than_interval(
           cache_file[r].date_retrieved, RefreshIntervalDays)
    ELSE "None"

call_cache_refresh_required(r) ==
  /\ resource_name' = r
  /\ refresh_required' = cache_refresh_required(r)
  /\ UNCHANGED <<cache_exists, cache_file, clock, ticks, others_cache>>

CacheResources == {redis, opensearch}

NextCache ==
  \/ time_passes
  \/ \E r \in CacheResources : write_to_cache(r)
  \/ \E r \in CacheResources : call_cache_refresh_required(r)

SpecCache == Init /\ [][NextCache]_vars

\* C25: cache_refresh_required returns True when the cache file is missing, when
\* it holds no entry for the resource, and when the entry is a day old or older;
\* it returns False otherwise, that is only for an entry younger than a day.
C25_Claim ==
  refresh_required # "unset" =>
    LET stale == \/ ~cache_exists
                 \/ resource_name \notin DOMAIN cache_file
                 \/ clock - strptime(cache_file[resource_name].date_retrieved) >= Day
    IN  /\ refresh_required \in {"True", "False"}
        /\ refresh_required = "True" <=> stale

\* ------------------------------------- dns_cli.py: certificate validation
MaxSleep == 3
MaxTimeout == 6

\* no call of the unchanged function gets this far
MaxReads == MaxTimeout + 4

others_wait == <<conduit_vars, cache_vars, cert_vars, mkfile_vars, defaults_vars, ext_vars>>

CertificateStatuses == {"PENDING_VALIDATION", "ISSUED", "FAILED"}

timed_out_never(elapsed, t) == FALSE
\* if elapsed_time > timeout: raise
timed_out(elapsed, t) == elapsed > t

\* the call: the first describe_certificate, elapsed_time = 0
wait_for_certificate_validation(s, t) ==
  /\ wait_pc \in {"idle", "returned", "raised"}
  /\ sleep_time' = s /\ timeout' = t
  /\ status' \in CertificateStatuses
  /\ reads' = 1
  /\ elapsed_time' = 0
  /\ wait_pc' = "while"
  /\ UNCHANGED others_wait

\* while status == 'PENDING_VALIDATION' is false: the function returns
wait_returns ==
  /\ wait_pc = "while"
  /\ status # "PENDING_VALIDATION"
  /\ wait_pc' = "returned"
  /\ UNCHANGED <<sleep_time, timeout, elapsed_time, status, reads, others_wait>>

wait_raises ==
  /\ wait_pc = "while"
  /\ status = "PENDING_VALIDATION"
  /\ timed_out(elapsed_time, timeout)
  /\ wait_pc' = "raised"
  /\ UNCHANGED <<sleep_time, timeout, elapsed_time, status, reads, others_wait>>

\* time.sleep(sleep_time), describe_certificate, elapsed_time += sleep_time
wait_sleeps ==
  /\ wait_pc = "while"
  /\ status = "PENDING_VALIDATION"
  /\ ~timed_out(elapsed_time, timeout)
  /\ reads < MaxReads
  /\ status' \in CertificateStatuses
  /\ reads' = reads + 1
  /\ elapsed_time' = elapsed_time + sleep_time
  /\ UNCHANGED <<wait_pc, sleep_time, timeout, others_wait>>

wait_step == wait_returns \/ wait_raises \/ wait_sleeps

NextWait ==
  \/ \E s \in 1..MaxSleep, t \in 0..MaxTimeout : wait_for_certificate_validation(s, t)
  \/ wait_returns
  \/ wait_raises
  \/ wait_sleeps

\* the function is straight-line code around a sleep: a call in progress goes on
SpecWait == Init /\ [][NextWait]_vars /\ WF_vars(wait_step)

\* C26: a call in progress ends, by returning or by raising; it returns only
\* with a status other than PENDING_VALIDATION and reads no further once it has
\* read one, it raises only with elapsed_time above timeout, and it makes at
\* most floor(timeout / sleep_time) + 2 status reads.
C26_WaitTerminates ==
  /\ [](wait_pc # "idle" => reads <= (timeout \div sleep_time) + 2)
  /\ [](wait_pc = "returned" => status # "PENDING_VALIDATION")
  /\ [](wait_pc = "raised" => (status = "PENDING_VALIDATION" /\ elapsed_time > timeout))
  /\ [][(wait_pc = "while" /\ reads' > reads) =>
          (status = "PENDING_VALIDATION" /\ elapsed_time <= timeout)]_vars
  /\ [][(wait_pc = "while" /\ status # "PENDING_VALIDATION") =>
          (wait_pc' \in {"while", "returned"} /\ reads' = reads)]_vars
  /\ (wait_pc = "while" ~> wait_pc \in {"returned", "raised"})

C26_Witness ==
  /\ wait_pc = "raised"
  /\ sleep_time = 2 /\ timeout = 5
  /\ reads = (timeout \div sleep_time) + 2

\* ------------------------------------------------- dns_cli.py: create_cert
MaxCertCalls == 4

others_cert == <<conduit_vars, cache_vars, wait_vars, mkfile_vars, defaults_vars, ext_vars>>

MAX_DOMAIN_DEPTH == 2

\* base_len of the base domain example.com
BaseLen == 2

\* domains, as domain.split(".") gives them
CertDomains == {<<"web", "dev", "example", "com">>,
                <<"v2", "web", "dev", "example", "com">>,
                <<"dev", "example", "com">>}

HostedZones == {<<"web", "dev", "example", "com">>, <<"example", "com">>}

\* parts[k:], a negative k counting from the end
slice_from(parts, k) ==
  LET first == IF k < 0 THEN (IF Len(parts) + k < 0 THEN 0 ELSE Len(parts) + k) ELSE k
  IN  IF first >= Len(parts) THEN <<>> ELSE SubSeq(parts, first + 1, Len(parts))

\* parts[len(parts) - base_len - MAX_DOMAIN_DEPTH:]
domain_to_create(domain, base_len) ==
  slice_from(domain, Len(domain) - base_len - MAX_DOMAIN_DEPTH)

find_cert_issued_only(certs, domain) ==
  IF \E i \in DOMAIN certs : certs[i].DomainName = domain /\ certs[i].Status = "ISSUED"
    THEN CHOOSE i \in DOMAIN certs :
           /\ certs[i].DomainName = domain /\ certs[i].Status = "ISSUED"
           /\ \A j \in 1..(i - 1) :
                ~(certs[j].DomainName = domain /\ certs[j].Status = "ISSUED")
    ELSE 0
\* for cert in resp["CertificateSummaryList"]: if domain == cert['DomainName']:
\* the first certificate of the domain, of any status (0: none)
find_cert(certs, domain) ==
  IF \E i \in DOMAIN certs : certs[i].DomainName = domain
    THEN CHOOSE i \in DOMAIN certs :
           /\ certs[i].DomainName = domain
           /\ \A j \in 1..(i - 1) : certs[j].DomainName # domain
    ELSE 0

\* the ways a create_cert call for the domain can end: the certificates and
\* records it leaves, what it returns, how it ends and what it did on the way
create_cert_outcomes(domain) ==
  LET found == find_cert(certificates, domain)
      arn == Len(certificates) + 1
      requested == Append(certificates, [DomainName |-> domain, CertificateArn |-> arn,
                                         Status |-> "PENDING_VALIDATION"])
      end(certs, records, a, how, r, c, p) ==
        [certificates |-> certs, dns_records |-> records, cert_arn |-> a,
         cert_outcome |-> how,
         cert_ops |-> [request_certificate |-> r, change_resource_record_sets |-> c,
                       confirm |-> p]]
  IN  IF found # 0
        \* "Cert already exists, do not need to create"
        THEN {end(certificates, dns_records, certificates[found].CertificateArn,
                  "returned", 0, 0, 0)}
        ELSE
          \* the first prompt is declined: exit()
          {end(certificates, dns_records, NoCertArn, "exit", 0, 0, 1)}
          \cup
          (IF domain_to_create(domain, BaseLen) \notin HostedZones
             \* no hosted zone of that name: domain_id is never bound
             THEN {end(requested, dns_records, NoCertArn, "UnboundLocalError", 1, 0, 1)}
             ELSE
               \* the second prompt is declined: exit()
               {end(requested, dns_records, NoCertArn, "exit", 1, 0, 2)}
               \cup
               (IF domain \in dns_records
                  \* Action CREATE of a record that exists
                  THEN {end(requested, dns_records, NoCertArn, "InvalidChangeBatch", 1, 1, 2)}
                  ELSE
                    \* wait_for_certificate_validation raises, or returns on a
                    \* status that is no longer PENDING_VALIDATION
                    {end(requested, dns_records \cup {domain}, NoCertArn, "raised", 1, 1, 2)}
                    \cup
                    {end([requested EXCEPT ![arn].Status = s], dns_records \cup {domain},
                         arn, "returned", 1, 1, 2) : s \in {"ISSUED", "FAILED"}}))

create_cert(domain) ==
  /\ cert_calls < MaxCertCalls
  /\ cert_calls' = cert_calls + 1
  /\ cert_domain' = domain
  /\ \E o \in create_cert_outcomes(domain) :
       /\ certificates' = o.certificates
       /\ dns_records' = o.dns_records
       /\ cert_arn' = o.cert_arn
       /\ cert_outcome' = o.cert_outcome
       /\ cert_ops' = o.cert_ops
  /\ UNCHANGED others_cert

\* ACM moves a certificate to another status
certificate_status_changes(i) ==
  /\ i \in DOMAIN certificates
  /\ \E s \in {"ISSUED", "EXPIRED"} :
       /\ certificates[i].Status # s
       /\ certificates' = [certificates EXCEPT ![i].Status = s]
  /\ UNCHANGED <<dns_records, cert_calls, cert_domain, cert_arn, cert_outcome, cert_ops,
                 others_cert>>

NextCert ==
  \/ \E d \in CertDomains : create_cert(d)
  \/ \E i \in 1..MaxCertCalls : certificate_status_changes(i)

SpecCert == Init /\ [][NextCert]_vars

MaxMkCalls == 3

others_mkfile == <<conduit_vars, cache_vars, wait_vars, cert_vars, defaults_vars, ext_vars>>

BasePaths == {<<>>, <<"out">>}
FilePaths == {<<"f">>, <<"d", "f">>}
Contents == {"a", "b"}

\* Path(p).parent
parent(p) == SubSeq(p, 1, Len(p) - 1)

\* makedirs(p): p and the directories above it
makedirs(p) == {SubSeq(p, 1, k) : k \in 0..Len(p)}

\* mkfile(base_path, file_path, contents, overwrite): the existence test is on
\* base_path/file_path, the directory test and makedirs on file_path.parent,
\* which is relative to the working directory; write_text needs the directory
\* of base_path/file_path
mkfile(base_path, file_path, contents, overwrite) ==
  LET file == base_path \o file_path
      file_exists == file \in DOMAIN files
      made == IF parent(file_path) \notin dirs THEN dirs \cup makedirs(parent(file_path))
                                              ELSE dirs
  IN  /\ mk_calls < MaxMkCalls
      /\ mk_calls' = mk_calls + 1
      /\ mk_file' = file /\ mk_contents' = contents /\ mk_overwrite' = overwrite
      /\ dirs' = made
      /\ IF file_exists /\ ~overwrite
           THEN /\ mk_message' = <<"File", file_path, "exists; doing nothing">>
                /\ files' = files
           ELSE IF parent(file) \notin made
             THEN /\ mk_message' = <<"FileNotFoundError">>
                  /\ files' = files
             ELSE /\ mk_message' = <<"File", file_path,
                                     IF file_exists /\ overwrite THEN "overwritten"
                                                                  ELSE "created">>
                  /\ files' = (file :> contents) @@ files
      /\ UNCHANGED others_mkfile

NextMkfile ==
  \E b \in BasePaths, p \in FilePaths, c \in Contents, o \in BOOLEAN : mkfile(b, p, c, o)

SpecMkfile == Init /\ [][NextMkfile]_vars

\* C28: a call on a file that exists, without overwrite, leaves every file as it
\* was and says "exists; doing nothing"; any other call leaves the file holding
\* exactly the given contents and says "created" for a new file, "overwritten"
\* for one that existed.
C28_Claim ==
  [][ mk_calls' = mk_calls + 1 =>
        LET existed == mk_file' \in DOMAIN files IN
          IF existed /\ ~mk_overwrite'
            THEN /\ files' = files
                 /\ Len(mk_message') = 3 /\ mk_message'[3] = "exists; doing nothing"
            ELSE /\ mk_file' \in DOMAIN files'
                 /\ files'[mk_file'] = mk_contents'
                 /\ Len(mk_message') = 3
                 /\ mk_message'[3] = IF existed THEN "overwritten" ELSE "created" ]_vars

\* ------------------------- utils/files.py: apply_environment_defaults
others_defaults == <<conduit_vars, cache_vars, wait_vars, cert_vars, mkfile_vars, ext_vars>>

\* a dict is a function of its keys; {} is the function of no key
EmptyDict == <<>>

\* None, as the value of an environment that is listed with nothing under it
PyNone == [None |-> TRUE]

VersionDicts == {EmptyDict,
                 [terraform |-> "1"],
                 [terraform |-> "2"],
                 [terraform |-> "2", platform_helper |-> "2"],
                 [platform_helper |-> "3"]}

\* what an entry of environments can hold: None, or a dict with or without a
\* vpc and with or without versions
EnvironmentData ==
  {PyNone} \cup
  {vpc @@ versions :
     vpc \in {EmptyDict, [vpc |-> "a"], [vpc |-> "b"]},
     versions \in {EmptyDict} \cup {[versions |-> v] : v \in VersionDicts}}

\* {**a, **b}: the keys of both, b's value where both have the key
merge(a, b) == b @@ a

\* dict.get(key, default)
get(d, key, default) == IF key \in DOMAIN d THEN d[key] ELSE default

\* data if data else {}
or_empty(data) == IF data = PyNone \/ data = EmptyDict THEN EmptyDict ELSE data

\* the configs passed in: an application name, with or without default_versions,
\* with or without environments; the environments "*", dev and prod, each
\* listed or not
Absent == {EmptyDict}

Configs ==
  {[application |-> "test-app"] @@ versions @@ environments :
     versions \in Absent \cup {[default_versions |-> v] :
                                 v \in {EmptyDict, [terraform |-> "1"],
                                        [terraform |-> "0", platform_helper |-> "1"]}},
     environments \in Absent \cup
       {[environments |-> star @@ dev @@ prod] :
          star \in Absent \cup {("*" :> d) : d \in EnvironmentData},
          dev \in Absent \cup {[dev |-> d] : d \in EnvironmentData},
          prod \in Absent \cup {[prod |-> d] :
                                  d \in {PyNone, [vpc |-> "b",
                                                  versions |-> [terraform |-> "1"]]}}}}

\* {**env_defaults, **data, "versions": {**default_versions,
\*    **env_defaults.get("versions", {}), **data.get("versions", {})}}
combine_env_data(env_defaults, default_versions, data) ==
  merge(merge(env_defaults, data),
        [versions |-> merge(merge(default_versions,
                                  get(env_defaults, "versions", EmptyDict)),
                            get(data, "versions", EmptyDict))])

\* what the call returns for the config, or the TypeError of unpacking None:
\* environments.get("*", {}) is None when "*" is listed with nothing under it,
\* and combine_env_data unpacks it for every other environment
apply_environment_defaults_result(c) ==
  IF "environments" \notin DOMAIN c
    THEN [outcome |-> "returned", value |-> c]
    ELSE
      LET environments == c["environments"]
          env_defaults == get(environments, "*", EmptyDict)
          without_defaults_entry ==
            [name \in DOMAIN environments \ {"*"} |-> or_empty(environments[name])]
          default_versions == get(c, "default_versions", EmptyDict)
      IN  IF env_defaults = PyNone /\ DOMAIN without_defaults_entry # {}
            THEN [outcome |-> "TypeError", value |-> EmptyDict]
            ELSE [outcome |-> "returned",
                  value |-> [c EXCEPT !["environments"] =
                               [name \in DOMAIN without_defaults_entry |->
                                  combine_env_data(env_defaults, default_versions,
                                                   without_defaults_entry[name])]]]

\* enriched_config = deepcopy(config): the config passed in is only read
config_after_call(c) == c

\* one call, on any of the configs
apply_environment_defaults(c) ==
  /\ defaults_pc = "idle"
  /\ config_arg' = c
  /\ config' = config_after_call(c)
  /\ defaults_pc' = apply_environment_defaults_result(c).outcome
  /\ enriched_config' = apply_environment_defaults_result(c).value
  /\ UNCHANGED others_defaults

NextDefaults == \E c \in Configs : apply_environment_defaults(c)

SpecDefaults == Init /\ [][NextDefaults]_vars

\* the value the key has for the environment: its own if it lists the key,
\* else the one of "*"
own_or_default(c, name, key) ==
  LET own == or_empty(c["environments"][name])
      star == get(c["environments"], "*", EmptyDict)
  IN  IF key \in DOMAIN own THEN own[key] ELSE star[key]

\* C29: a call returns; the config passed in is unchanged; without an
\* environments key the config itself is returned; with one, the result has an
\* entry for every environment but "*" and none for "*", every key other than
\* versions has the environment's own value if it lists the key and the value
\* of "*" otherwise, and every version has the environment's value, else the
\* one of "*", else the one of default_versions.
C29_Claim ==
  defaults_pc # "idle" =>
    /\ defaults_pc = "returned"
    /\ config = config_arg
    /\ "environments" \notin DOMAIN config_arg => enriched_config = config_arg
    /\ "environments" \in DOMAIN config_arg =>
         LET in == config_arg["environments"]
             out == enriched_config["environments"]
             star == get(in, "*", EmptyDict)
         IN  /\ DOMAIN enriched_config = DOMAIN config_arg
             /\ \A k \in DOMAIN config_arg \ {"environments"} :
                  enriched_config[k] = config_arg[k]
             /\ DOMAIN out = DOMAIN in \ {"*"}
             /\ \A name \in DOMAIN out :
                  LET own == or_empty(in[name])
                      vs == [e \in {"own", "star", "top"} |->
                               IF e = "own" THEN get(own, "versions", EmptyDict)
                               ELSE IF e = "star" THEN get(star, "versions", EmptyDict)
                               ELSE get(config_arg, "default_versions", EmptyDict)]
                  IN  /\ DOMAIN out[name] = DOMAIN own \cup DOMAIN star \cup {"versions"}
                      /\ \A key \in DOMAIN out[name] \ {"versions"} :
                           out[name][key] = own_or_default(config_arg, name, key)
                      /\ DOMAIN out[name]["versions"] =
                           DOMAIN vs["own"] \cup DOMAIN vs["star"] \cup DOMAIN vs["top"]
                      /\ \A v \in DOMAIN out[name]["versions"] :
                           out[name]["versions"][v] =
                             IF v \in DOMAIN vs["own"] THEN vs["own"][v]
                             ELSE IF v \in DOMAIN vs["star"] THEN vs["star"][v]
                             ELSE vs["top"][v]

\* ------------- domain/copilot.py: _validate_and_normalise_extensions_config
others_ext == <<conduit_vars, cache_vars, wait_vars, cert_vars, mkfile_vars, defaults_vars>>

\* list_copilot_local_services()
svc_names == {"web", "api"}

\* services: "__all__"
AllServices == {"__all__"}

\* k.replace("-", "_") for the keys a config file can use
normalise_key(k) == IF k = "volume-size" THEN "volume_size" ELSE k

\* {k.replace("-", "_"): v for k, v in source.items()}
_normalise_keys(source) ==
  [k \in {normalise_key(x) : x \in DOMAIN source} |->
     source[CHOOSE x \in DOMAIN source : normalise_key(x) = k]]

\* the dict without the keys
without(d, keys) == [k \in DOMAIN d \ keys |-> d[k]]

_lookup_plan_without_copy(plans, type, env_conf) ==
  LET conf == IF "plan" \in DOMAIN env_conf THEN plans[type][env_conf["plan"]]
                                            ELSE EmptyDict
      updated == merge(conf, without(env_conf, {"plan"}))
  IN  [conf |-> updated,
       plans |-> IF "plan" \in DOMAIN env_conf
                   THEN [plans EXCEPT ![type][env_conf["plan"]] = updated]
                   ELSE plans]
\* plan = env_conf.pop("plan", None); conf = addon_plans[addon_type][plan] if plan
\* else {}; conf = conf.copy(); conf.update(env_conf): the plans stay as loaded
_lookup_plan(plans, type, env_conf) ==
  LET conf == IF "plan" \in DOMAIN env_conf THEN plans[type][env_conf["plan"]]
                                            ELSE EmptyDict
  IN  [conf |-> merge(conf, without(env_conf, {"plan"})), plans |-> plans]

\* for env_name, env_config in environments.items(): the environment's settings,
\* with the defaults of its own plan under them, are laid over what it has
RECURSIVE update_environments(_, _, _, _, _)
update_environments(names, type, environments, normalised_environments, plans) ==
  IF names = {}
    THEN [environments |-> normalised_environments, plans |-> plans]
    ELSE
      LET env_name == CHOOSE x \in names : TRUE
          env_config == IF environments[env_name] = PyNone THEN EmptyDict
                                                            ELSE environments[env_name]
          looked == _lookup_plan(plans, type, _normalise_keys(env_config))
      IN  update_environments(
            names \ {env_name}, type, environments,
            [normalised_environments EXCEPT ![env_name] = merge(@, looked.conf)],
            looked.plans)

\* one round of the loop over config.items()
normalise_addon(addon_config, envs, plans, config_has_errors) ==
  LET listed == "services" \in DOMAIN addon_config
      services == IF ~listed THEN {}
                  ELSE IF addon_config["services"] = AllServices THEN svc_names
                  ELSE addon_config["services"]
      copied == without(IF listed THEN [addon_config EXCEPT !["services"] = services]
                                  ELSE addon_config, {"environments"})
      bad_services == listed /\ ~(services \subseteq svc_names)
      all_environments == get(addon_config, "environments", EmptyDict)
      default == IF "*" \in DOMAIN all_environments THEN all_environments["*"]
                 ELSE get(all_environments, "default", EmptyDict)
      environments == without(all_environments, {"*", "default"})
      initial == _lookup_plan(plans, addon_config["type"], default)
      missing_envs == DOMAIN environments \ envs
      has_errors == config_has_errors \/ bad_services \/ missing_envs # {}
      messages == (IF bad_services THEN <<"services">> ELSE <<>>)
                    \o (IF missing_envs # {} THEN <<"environments">> ELSE <<>>)
      updated == update_environments(DOMAIN environments, addon_config["type"], environments,
                                     [e \in envs |-> _normalise_keys(initial.conf)],
                                     initial.plans)
  IN  IF has_errors
        THEN [addon |-> copied, config_has_errors |-> TRUE, messages |-> messages,
              plans |-> initial.plans]
        ELSE [addon |-> merge(copied, [environments |-> updated.environments]),
              config_has_errors |-> FALSE, messages |-> messages, plans |-> updated.plans]

\* for addon_name, addon_config in config.items(): the addons in file order,
\* with what has been normalised, reported and found wrong so far
RECURSIVE normalise_from(_, _, _, _, _, _, _)
normalise_from(i, config_items, envs, plans, config_has_errors, normalised, messages) ==
  IF i > Len(config_items)
    THEN [normalised |-> normalised, config_has_errors |-> config_has_errors,
          messages |-> messages, plans |-> plans]
    ELSE
      LET item == config_items[i]
          round == normalise_addon(item.config, envs, plans, config_has_errors)
      IN  normalise_from(i + 1, config_items, envs, round.plans, round.config_has_errors,
                         (item.name :> round.addon) @@ normalised,
                         messages \o [k \in DOMAIN round.messages |->
                                        <<item.name, round.messages[k]>>])

\* the whole call: {} for an empty file, exit(1) without local environments or
\* services or when an addon was found wrong, else the normalised config
_validate_and_normalise_extensions_config_result(config_items, envs) ==
  LET end(how, st, value, messages, plans) ==
        [ext_pc |-> how, ext_status |-> st, normalised_config |-> value,
         ext_messages |-> messages, addon_plans |-> plans]
      looped == normalise_from(1, config_items, envs, addon_plans, FALSE, EmptyDict, <<>>)
  IN  IF config_items = <<>> THEN end("returned", -1, EmptyDict, <<>>, addon_plans)
      ELSE IF envs = {} THEN end("exit", 1, EmptyDict, <<>>, addon_plans)
      ELSE IF svc_names = {} THEN end("exit", 1, EmptyDict, <<>>, addon_plans)
      ELSE IF looped.config_has_errors
        THEN end("exit", 1, EmptyDict, looped.messages, looped.plans)
        ELSE end("returned", -1, looped.normalised, looped.messages, looped.plans)

\* the "*" and default blocks of the config files
DefaultBlocks == {EmptyDict,
                  [plan |-> "small"],
                  [plan |-> "small", volume_size |-> 100],
                  ("volume-size" :> 100)}

\* the blocks of one environment: nothing, a plan of its own, settings of its own
EnvironmentBlocks == {PyNone,
                      [plan |-> "large"],
                      [volume_size |-> 7],
                      ("volume-size" :> 7) @@ [plan |-> "large"],
                      [instances |-> 3]}

\* the first addon: any services entry, any environments entry; ghost is not a
\* local environment, nope not a local service
CacheAddons ==
  {[type |-> "redis"] @@ services @@ environments :
     services \in Absent \cup {[services |-> s] : s \in {AllServices, {"web"}, {"web", "nope"}}},
     environments \in Absent \cup
       {[environments |-> star @@ default @@ dev @@ prod @@ ghost] :
          star \in Absent \cup {("*" :> b) : b \in DefaultBlocks},
          default \in Absent \cup {[default |-> [plan |-> "large"]]},
          dev \in Absent \cup {[dev |-> b] : b \in EnvironmentBlocks},
          prod \in Absent \cup {[prod |-> PyNone]},
          ghost \in Absent \cup {[ghost |-> EmptyDict]}}}

\* a second addon: a sound one, one with an unknown service, one with an
\* unknown environment
QueueAddons ==
  {[type |-> "redis", environments |-> [dev |-> [plan |-> "small"]]],
   [type |-> "redis", services |-> {"nope"}],
   [type |-> "redis", environments |-> [ghost |-> EmptyDict]]}

\* the config files: empty, one addon, two addons in either order
ExtensionConfigs ==
  {<<>>}
  \cup {<<[name |-> "cache", config |-> a]>> : a \in CacheAddons}
  \cup {<<[name |-> "cache", config |-> a], [name |-> "queue", config |-> b]>> :
          a \in CacheAddons, b \in QueueAddons}
  \cup {<<[name |-> "queue", config |-> b], [name |-> "cache", config |-> a]>> :
          a \in CacheAddons, b \in QueueAddons}

\* list_copilot_local_environments()
LocalEnvironments == {{"dev", "prod"}, {}}

\* one call, on any of the config files
_validate_and_normalise_extensions_config(config_items, envs) ==
  /\ ext_pc = "idle"
  /\ extensions' = config_items
  /\ env_names' = envs
  /\ LET r == _validate_and_normalise_extensions_config_result(config_items, envs)
     IN  /\ ext_pc' = r.ext_pc
         /\ ext_status' = r.ext_status
         /\ normalised_config' = r.normalised_config
         /\ ext_messages' = r.ext_messages
         /\ addon_plans' = r.addon_plans
  /\ UNCHANGED others_ext

NextExtensions ==
  \E c \in ExtensionConfigs, e \in LocalEnvironments :
    _validate_and_normalise_extensions_config(c, e)

SpecExtensions == Init /\ [][NextExtensions]_vars

\* the block of the addon config that holds the defaults: "*", else default
default_block(addon_config) ==
  LET all_environments == get(addon_config, "environments", EmptyDict)
  IN  IF "*" \in DOMAIN all_environments THEN all_environments["*"]
      ELSE get(all_environments, "default", EmptyDict)

\* the block the addon config lists for the environment ({}: none, or nothing in it)
environment_block(addon_config, e) ==
  LET all_environments == get(addon_config, "environments", EmptyDict)
  IN  IF e \in DOMAIN all_environments /\ all_environments[e] # PyNone
        THEN all_environments[e] ELSE EmptyDict

\* the settings a block gives itself, under normalised keys
settings(block) ==
  [k \in {normalise_key(x) : x \in DOMAIN block \ {"plan"}} |->
     block[CHOOSE x \in DOMAIN block : normalise_key(x) = k]]

\* the settings of the plan a block names ({}: it names none)
plan_defaults(addon_config, block) ==
  IF "plan" \in DOMAIN block THEN AddonPlans[addon_config["type"]][block["plan"]]
                             ELSE EmptyDict

\* the keys of all the layers, each with the value of the first layer that has it
layered(layers) ==
  [k \in UNION {DOMAIN layers[i] : i \in DOMAIN layers} |->
     layers[CHOOSE i \in DOMAIN layers :
              k \in DOMAIN layers[i] /\ \A j \in 1..(i - 1) : k \notin DOMAIN layers[j]][k]]

\* what is wrong with the addon: a service that is not local, an environment
\* that is not local
wrong(addon_config) ==
  (IF /\ "services" \in DOMAIN addon_config
      /\ addon_config["services"] # AllServices
      /\ ~(addon_config["services"] \subseteq svc_names)
     THEN {"services"} ELSE {})
  \cup
  (IF DOMAIN get(addon_config, "environments", EmptyDict) \ ({"*", "default"} \cup env_names) # {}
     THEN {"environments"} ELSE {})

\* either exit(1) with every wrong addon reported, or every addon returned with
\* one entry per local environment, built from the layers given for it
normalised_or_exit(layers(_, _)) ==
  (ext_pc # "idle" /\ extensions # <<>> /\ env_names # {}) =>
    /\ addon_plans = AddonPlans
    /\ (\E i \in DOMAIN extensions : wrong(extensions[i].config) # {}) =>
         /\ ext_pc = "exit" /\ ext_status = 1
         /\ \A i \in DOMAIN extensions : \A w \in wrong(extensions[i].config) :
              \E m \in DOMAIN ext_messages : ext_messages[m] = <<extensions[i].name, w>>
    /\ (\A i \in DOMAIN extensions : wrong(extensions[i].config) = {}) =>
         /\ ext_pc = "returned"
         /\ DOMAIN normalised_config = {extensions[i].name : i \in DOMAIN extensions}
         /\ \A i \in DOMAIN extensions :
              LET addon == normalised_config[extensions[i].name]
              IN  /\ "environments" \in DOMAIN addon
                  /\ DOMAIN addon["environments"] = env_names
                  /\ \A e \in env_names :
                       addon["environments"][e] = layered(layers(extensions[i].config, e))

\* the three layers: the environment's settings, the default block's settings,
\* the defaults of the plan (the environment's, else the default block's)
three_layers(addon_config, e) ==
  LET own == environment_block(addon_config, e)
      default == default_block(addon_config)
  IN  <<settings(own), settings(default),
        IF "plan" \in DOMAIN own THEN plan_defaults(addon_config, own)
                                 ELSE plan_defaults(addon_config, default)>>

\* the four layers: the environment's settings, the defaults of the plan the
\* environment names, the default block's settings, the defaults of the plan
\* the default block names
four_layers(addon_config, e) ==
  LET own == environment_block(addon_config, e)
      default == default_block(addon_config)
  IN  <<settings(own), plan_defaults(addon_config, own),
        settings(default), plan_defaults(addon_config, default)>>

\* C30 as stated: exit(1) with all wrong addons reported, or every addon with
\* one entry per local environment built as plan defaults, overridden by the
\* "*"/default block, overridden by the environment's own settings; the addon
\* plans stay as loaded.
C30_Claim == normalised_or_exit(three_layers)

\* C30, amended: the same, each entry built as the defaults of the default
\* block's plan, overridden by the default block's settings, overridden by the
\* defaults of the plan the environment itself names, overridden by the
\* environment's own settings.
C30_NormalisedOrExit == normalised_or_exit(four_layers)

C30_Witness ==
  /\ ext_pc = "returned" /\ Len(extensions) = 2 /\ env_names = {"dev", "prod"}
  /\ extensions[1].name = "cache"
  /\ default_block(extensions[1].config) = [plan |-> "small", volume_size |-> 100]
  /\ environment_block(extensions[1].config, "dev") = [plan |-> "large"]
  /\ normalised_config["cache"]["environments"]["dev"] =
       [volume_size |-> 500, replicas |-> 2, instances |-> 1]
  /\ normalised_config["cache"]["environments"]["prod"] =
       [volume_size |-> 100, instances |-> 1]

====
